---- MODULE Spec2Model ----
(***************************************************************************)
(* The room-aware multiplayer relay server (src/unnamed/part_001): the     *)
(* nickname registry, the Player State Store, the per-socket rate-limit    *)
(* timestamps, the event handlers registered in io.on('connection') and    *)
(* the fixed-rate game loop. After it come the other programs of the       *)
(* repository, each with its own specification: the global-broadcast       *)
(* server (src/server.js), the map persistence API, the client             *)
(* (src/unnamed/part_000) and the persistence layer (src/database.js).     *)
(*                                                                         *)
(* Node runs every handler to completion, so each handler is one action.   *)
(* Socket.IO is the transport: a socket is a member of the room it joined  *)
(* with socket.join(roomName) and, as Socket.IO does for every socket on   *)
(* connect, of the room named by its own id; it leaves all its rooms       *)
(* before its 'disconnect' listeners run.                                  *)
(*                                                                         *)
(* Numbers: positions are world units, angles are milliradians (PI is      *)
(* Math.PI in that unit), times are Date.now() milliseconds.               *)
(***************************************************************************)
EXTENDS Integers, Sequences, FiniteSets, Bags, TLC

VARIABLES
    sockets,          \* the connected sockets: id -> [roomName, nickname, lastMoveAt, lastDaniel]
    closed,           \* ids of the sockets that have disconnected (an id is never reused)
    players,          \* let players = {} : id -> PlayerState
    activeNicknames,  \* const activeNicknames = {} : id -> nickname
    now,              \* Date.now()
    proc,             \* "running", "hung" once a handler never returns, "crashed" once one threw
    last,             \* the event the event loop handled last: [ev, id, payload]
    sent,             \* the bag of messages that handler emitted: [ev, from, payload, to, volatile]
    win,              \* observer of one socket's applied moves in a one-second window: [id, start, count]
    maps,             \* the files of MAPS_DIR: base name -> the JSON they hold
    res,              \* the response to the last HTTP request: [status, body]
    fsCalls,          \* the base names of the files the last HTTP handler read or wrote
    rows,             \* the players table of rogold.db: id -> [nickname, data]
    otherPlayers,     \* the client's otherPlayers: remote player id -> avatar
    scene,            \* the avatars in the client's scene
    loads,            \* the head-model loads of the client that have not completed: [id, n]
    equippedTool,     \* the client's equippedTool
    isEquipping,      \* the client's isEquipping
    emitted           \* the equipTool / unequipTool messages the client has emitted, in order

apiVars == <<maps, res, fsCalls>>
dbVars == <<rows>>
clientVars == <<otherPlayers, scene, loads, equippedTool, isEquipping, emitted>>
relayVars == <<sockets, closed, players, activeNicknames, now, proc, sent, win>>

vars == <<sockets, closed, players, activeNicknames, now, proc, last, sent, win,
          maps, res, fsCalls, rows, otherPlayers, scene, loads, equippedTool, isEquipping,
          emitted>>

----------------------------------------------------------------------------
\* JavaScript values that are not strings or numbers of the model
Undefined == "<undefined>"
Null == "<null>"
\* A value the client did not send (no auth.room in the handshake, no payload), and
\* the auth.room [] whose String() is empty
Absent == "<absent>"
EmptyArray == "<[]>"

\* program constants
MAX_MOVE_RATE == 30
WORLD_XZ == 250
WORLD_YMIN == 0
WORLD_YMAX == 500
PI == 3142
DANIEL_COOLDOWN == 20000
DefaultColors == [head |-> "#FAD417", torso |-> "#00A2FF", arms |-> "#FAD417", legs |-> "#80C91C"]

NicknameInUse == "A sua conta ja esta sendo usada"
DANIEL == "daniel244"
ADMIN == "notrealregi"

\* The ids Socket.IO hands out, in the order it hands them out
SidOrder == <<"s1", "s2", "s3">>

\* bounds: the clock's start and its last value
T0 == 1000
MoveEnd == 1068
RateEnd == 2054
DanielEnd == 41003
NoWindow == [id |-> "", start |-> 0, count |-> 0]

Range(f) == {f[k] : k \in DOMAIN f}
Drop(f, k) == [j \in DOMAIN f \ {k} |-> f[j]]
Put(f, k, v) == [j \in DOMAIN f \cup {k} |-> IF j = k THEN v ELSE f[j]]
NoOne == [j \in {} |-> Undefined]
NoResponse == [status |-> 0, body |-> ""]

----------------------------------------------------------------------------
\* Room selection, io.on('connection')
RoomNameOf(authRoom) ==
    IF authRoom \in {Absent, ""} THEN "default"
    ELSE IF authRoom = EmptyArray THEN ""
    ELSE authRoom

\* The sockets a message addressed to room r reaches
Members(r) == {s \in DOMAIN sockets : s = r \/ sockets[s].roomName = r}

Msg(ev, from, payload, to, vol) ==
    [ev |-> ev, from |-> from, payload |-> payload, to |-> to, volatile |-> vol]

\* socket.emit(ev, payload)
EmitSelf(s, ev, payload) == SetToBag({Msg(ev, s, payload, s, FALSE)})
\* io.to(r).emit(ev, payload), from a handler of socket s
EmitRoom(s, r, ev, payload) == SetToBag({Msg(ev, s, payload, t, FALSE) : t \in Members(r)})
\* socket.to(r).emit(ev, payload)
EmitOthers(s, r, ev, payload) == SetToBag({Msg(ev, s, payload, t, FALSE) : t \in Members(r) \ {s}})

----------------------------------------------------------------------------
Init ==
    /\ sockets = NoOne
    /\ closed = {}
    /\ players = NoOne
    /\ activeNicknames = NoOne
    /\ now = T0
    /\ proc = "running"
    /\ last = [ev |-> "listen", id |-> "", payload |-> ""]
    /\ sent = EmptyBag
    /\ win = NoWindow
    /\ maps = NoOne
    /\ res = NoResponse
    /\ fsCalls = {}
    /\ rows = NoOne
    /\ otherPlayers = NoOne
    /\ scene = {}
    /\ loads = {}
    /\ equippedTool = Null
    /\ isEquipping = FALSE
    /\ emitted = <<>>

\* io.on('connection'): a new socket, with the room its handshake asks for
Connect(s, authRoom) ==
    /\ proc = "running"
    /\ s \notin DOMAIN sockets \cup closed
    /\ s = SidOrder[Cardinality(DOMAIN sockets \cup closed) + 1]
    /\ sockets' = Put(sockets, s, [roomName |-> RoomNameOf(authRoom), nickname |-> Undefined,
                                   lastMoveAt |-> 0, lastDaniel |-> 0])
    /\ last' = [ev |-> "connection", id |-> s, payload |-> authRoom]
    /\ sent' = EmptyBag
    /\ UNCHANGED <<closed, players, activeNicknames, now, proc, win>>
    /\ UNCHANGED <<apiVars, dbVars, clientVars>>

\* variant: Object.keys(activeNicknames).includes(nickname)
NicknameTakenKeys(nickname) == nickname \in DOMAIN activeNicknames

\* variant: a register without a nickname is turned away too
NicknameTakenOrMissing(nickname) == nickname = Undefined \/ nickname \in Range(activeNicknames)

\* Object.values(activeNicknames).includes(nickname)
NicknameTaken(nickname) == nickname \in Range(activeNicknames)

\* variant: a spawn pose on the ground and a tool field
NewPlayerOnGround(s, nickname, roomName) ==
    [id |-> s, nickname |-> nickname, room |-> roomName,
     x |-> 0, y |-> 0, z |-> 0, rotation |-> 0, isMoving |-> FALSE,
     colors |-> DefaultColors, hatId |-> Null, tool |-> Null]

\* The record register stores in players[socket.id]
NewPlayer(s, nickname, roomName) ==
    [id |-> s, nickname |-> nickname, room |-> roomName,
     x |-> 0, y |-> 3, z |-> 0, rotation |-> 0, isMoving |-> FALSE,
     colors |-> DefaultColors, hatId |-> Null]

\* Object.entries(players).filter(([_, p]) => p.room === roomName)
RoomPlayers(ps, roomName) ==
    [i \in {j \in DOMAIN ps : ps[j].room = roomName} |-> ps[i]]

\* players[socket.id]?.room || roomName
LeftRoom(s, roomName) ==
    IF s \in DOMAIN players /\ players[s].room # "" THEN players[s].room ELSE roomName

\* variant: the disconnect listener without delete activeNicknames[socket.id]
OnDisconnectKeepsNickname(s, roomName, em) ==
    /\ activeNicknames' = activeNicknames
    /\ players' = Drop(players, s)
    /\ sockets' = Drop(sockets, s)
    /\ closed' = closed \cup {s}
    /\ sent' = em (+) SetToBag({Msg("playerLeft", s, s, t, FALSE) :
                                    t \in Members(LeftRoom(s, roomName)) \ {s}})

\* variant: the disconnect listener without delete players[socket.id]
OnDisconnectKeepsPlayer(s, roomName, em) ==
    /\ activeNicknames' = Drop(activeNicknames, s)
    /\ players' = players
    /\ sockets' = Drop(sockets, s)
    /\ closed' = closed \cup {s}
    /\ sent' = em (+) SetToBag({Msg("playerLeft", s, s, t, FALSE) :
                                    t \in Members(LeftRoom(s, roomName)) \ {s}})

\* socket.on('disconnect'): runs once socket s has left its rooms; em is what the
\* handler that closed the socket had emitted before
OnDisconnect(s, roomName, em) ==
    /\ activeNicknames' = Drop(activeNicknames, s)
    /\ players' = Drop(players, s)
    /\ sockets' = Drop(sockets, s)
    /\ closed' = closed \cup {s}
    /\ sent' = em (+) SetToBag({Msg("playerLeft", s, s, t, FALSE) :
                                    t \in Members(LeftRoom(s, roomName)) \ {s}})

\* The branch of register that admits the socket
Admit(s, nickname) ==
    LET roomName == sockets[s].roomName
        ps == Put(players, s, NewPlayer(s, nickname, roomName))
    IN  /\ activeNicknames' = Put(activeNicknames, s, nickname)
        /\ sockets' = [sockets EXCEPT ![s].nickname = nickname]
        /\ players' = ps
        /\ sent' = EmitSelf(s, "initialPlayers", RoomPlayers(ps, roomName))
                   (+) EmitOthers(s, roomName, "playerJoined", ps[s])
        /\ UNCHANGED closed

\* variant: register without socket.disconnect() in its duplicate branch
RegisterNoDisconnect(s, nickname) ==
    /\ proc = "running"
    /\ s \in DOMAIN sockets
    /\ last' = [ev |-> "register", id |-> s, payload |-> nickname]
    /\ IF NicknameTaken(nickname)
       THEN /\ sent' = EmitSelf(s, "nicknameError", NicknameInUse)
            /\ UNCHANGED <<sockets, closed, players, activeNicknames>>
       ELSE Admit(s, nickname)
    /\ UNCHANGED <<now, proc, win>>
    /\ UNCHANGED <<apiVars, dbVars, clientVars>>

\* variant: register whose duplicate check looks at the sender's room only
RegisterPerRoom(s, nickname) ==
    /\ proc = "running"
    /\ s \in DOMAIN sockets
    /\ last' = [ev |-> "register", id |-> s, payload |-> nickname]
    /\ IF \E i \in DOMAIN players : players[i].room = sockets[s].roomName /\ players[i].nickname = nickname
       THEN OnDisconnect(s, sockets[s].roomName, EmitSelf(s, "nicknameError", NicknameInUse))
       ELSE Admit(s, nickname)
    /\ UNCHANGED <<now, proc, win>>
    /\ UNCHANGED <<apiVars, dbVars, clientVars>>

\* socket.on('register')
Register(s, nickname) ==
    /\ proc = "running"
    /\ s \in DOMAIN sockets
    /\ last' = [ev |-> "register", id |-> s, payload |-> nickname]
    /\ IF NicknameTaken(nickname)
       THEN \* nicknameError, then socket.disconnect() runs the disconnect listener
            OnDisconnect(s, sockets[s].roomName, EmitSelf(s, "nicknameError", NicknameInUse))
       ELSE Admit(s, nickname)
    /\ UNCHANGED <<now, proc, win>>
    /\ UNCHANGED <<apiVars, dbVars, clientVars>>

\* The transport closes socket s (the client left, or the ping timed out)
Disconnect(s) ==
    /\ proc = "running"
    /\ s \in DOMAIN sockets
    /\ last' = [ev |-> "disconnect", id |-> s, payload |-> ""]
    /\ OnDisconnect(s, sockets[s].roomName, EmptyBag)
    /\ UNCHANGED <<now, proc, win>>
    /\ UNCHANGED <<apiVars, dbVars, clientVars>>

----------------------------------------------------------------------------
(* A JavaScript value of a playerMove field: [k, v] with k one of                    *)
(*   "num"  the finite number v          "undef" undefined, or the field is missing  *)
(*   "inf" / "ninf"  +-Infinity          "null"  null                                *)
(*   "huge" / "nhuge"  a finite number so large that adding 2*PI does not change it  *)
(*   "str"  a non-numeric string         "true" / "false"                            *)
Num(n) == [k |-> "num", v |-> n]
JsUndef == [k |-> "undef", v |-> 0]
JsNull == [k |-> "null", v |-> 0]
JsStr == [k |-> "str", v |-> 0]
JsTrue == [k |-> "true", v |-> 0]
JsFalse == [k |-> "false", v |-> 0]
JsInf == [k |-> "inf", v |-> 0]
JsNegInf == [k |-> "ninf", v |-> 0]
JsHuge == [k |-> "huge", v |-> 0]
JsNegHuge == [k |-> "nhuge", v |-> 0]

\* Number(v) || 0
NumberOr0(v) ==
    CASE v.k \in {"undef", "null", "str", "false"} -> Num(0)
      [] v.k = "true" -> Num(1)
      [] OTHER -> v

\* !!v
Truthy(v) ==
    \/ v.k \in {"str", "true", "inf", "ninf", "huge", "nhuge"}
    \/ v.k = "num" /\ v.v # 0

MaxOf(a, b) == IF a >= b THEN a ELSE b
MinOf(a, b) == IF a <= b THEN a ELSE b

\* variant: Math.min(max, Number(v) || 0), the lower bound forgotten
clampNoLower(v, min, max) ==
    LET n == NumberOr0(v)
    IN  CASE n.k \in {"inf", "huge"} -> max
          [] n.k \in {"ninf", "nhuge"} -> min - 1
          [] OTHER -> MinOf(max, n.v)

\* function clamp(v, min, max): Math.max(min, Math.min(max, Number(v) || 0))
clamp(v, min, max) ==
    LET n == NumberOr0(v)
    IN  CASE n.k \in {"inf", "huge"} -> max
          [] n.k \in {"ninf", "nhuge"} -> min
          [] OTHER -> MaxOf(min, MinOf(max, n.v))

\* while (a > Math.PI) a -= Math.PI * 2
RECURSIVE wrapDown(_)
wrapDown(a) == IF a > PI THEN wrapDown(a - 2 * PI) ELSE a
\* while (a < -Math.PI) a += Math.PI * 2
RECURSIVE wrapUp(_)
wrapUp(a) == IF a < -PI THEN wrapUp(a + 2 * PI) ELSE a

\* normalizeAngle(a) returns: its loops end only when subtracting 2*PI changes a
normalizeReturns(a) == NumberOr0(a).k = "num"

\* variant: if in place of while, one adjustment each way
normalizeAngleOnce(a) ==
    LET n == NumberOr0(a).v
        d == IF n > PI THEN n - 2 * PI ELSE n
    IN  IF d < -PI THEN d + 2 * PI ELSE d

\* function normalizeAngle(a), where it returns; Number(true) is 1 radian
normalizeAngle(a) == wrapUp(wrapDown(IF a.k = "true" THEN 1000 ELSE NumberOr0(a).v))

\* data?.rotation ?? 0
OrZero(v) == IF v.k \in {"undef", "null"} THEN Num(0) ELSE v

\* variant: the comparison turned round
RateLimitedInverted(lastMoveAt, t) ==
    lastMoveAt # 0 /\ (t - lastMoveAt) * MAX_MOVE_RATE > 1000

\* socket.lastMoveAt && now - socket.lastMoveAt < (1000 / MAX_MOVE_RATE)
RateLimited(lastMoveAt, t) ==
    lastMoveAt # 0 /\ (t - lastMoveAt) * MAX_MOVE_RATE < 1000

\* variant: the record is replaced by a new one that holds the move only
MovedReplaces(p, data, nickname) ==
    [f \in {"id", "nickname", "x", "y", "z", "rotation", "isMoving", "isInAir"} |->
        CASE f = "x" -> clamp(data.x, -WORLD_XZ, WORLD_XZ)
          [] f = "y" -> clamp(data.y, WORLD_YMIN, WORLD_YMAX)
          [] f = "z" -> clamp(data.z, -WORLD_XZ, WORLD_XZ)
          [] f = "rotation" -> normalizeAngle(OrZero(data.rotation))
          [] f = "isMoving" -> Truthy(data.isMoving)
          [] f = "isInAir" -> Truthy(data.isInAir)
          [] f = "nickname" -> nickname
          [] OTHER -> p[f]]

\* The assignments p.x = x ... p.nickname = socket.nickname of playerMove
Moved(p, data, nickname) ==
    [f \in DOMAIN p \cup {"isInAir"} |->
        CASE f = "x" -> clamp(data.x, -WORLD_XZ, WORLD_XZ)
          [] f = "y" -> clamp(data.y, WORLD_YMIN, WORLD_YMAX)
          [] f = "z" -> clamp(data.z, -WORLD_XZ, WORLD_XZ)
          [] f = "rotation" -> normalizeAngle(OrZero(data.rotation))
          [] f = "isMoving" -> Truthy(data.isMoving)
          [] f = "isInAir" -> Truthy(data.isInAir)
          [] f = "nickname" -> nickname
          [] OTHER -> p[f]]

\* The observer counts a move applied for the socket it watches, inside its window
Counted(s) ==
    IF win.id = s /\ now <= win.start + 1000
    THEN [win EXCEPT !.count = @ + 1]
    ELSE win

\* variant: an applied move is sent on to the room at once
PlayerMoveBroadcasts(s, data) ==
    /\ proc = "running"
    /\ s \in DOMAIN sockets
    /\ last' = [ev |-> "playerMove", id |-> s, payload |-> data]
    /\ IF RateLimited(sockets[s].lastMoveAt, now)
       THEN /\ sent' = EmptyBag
            /\ UNCHANGED <<sockets, players, proc, win>>
       ELSE /\ sockets' = [sockets EXCEPT ![s].lastMoveAt = now]
            /\ IF s \notin DOMAIN players
               THEN /\ sent' = EmptyBag
                    /\ UNCHANGED <<players, proc, win>>
               ELSE IF ~normalizeReturns(OrZero(data.rotation))
               THEN /\ proc' = "hung"
                    /\ sent' = EmptyBag
                    /\ UNCHANGED <<players, win>>
               ELSE /\ players' = [players EXCEPT ![s] = Moved(@, data, sockets[s].nickname)]
                    /\ sent' = EmitOthers(s, sockets[s].roomName, "playerMoved",
                                          Moved(players[s], data, sockets[s].nickname))
                    /\ win' = Counted(s)
                    /\ UNCHANGED proc
    /\ UNCHANGED <<closed, activeNicknames, now>>
    /\ UNCHANGED <<apiVars, dbVars, clientVars>>

\* variant: the timestamp is taken before the rate limit is tested
PlayerMoveStampsFirst(s, data) ==
    /\ proc = "running"
    /\ s \in DOMAIN sockets
    /\ last' = [ev |-> "playerMove", id |-> s, payload |-> data]
    /\ sent' = EmptyBag
    /\ sockets' = [sockets EXCEPT ![s].lastMoveAt = now]
    /\ IF RateLimited(sockets[s].lastMoveAt, now) \/ s \notin DOMAIN players
       THEN UNCHANGED <<players, proc, win>>
       ELSE IF ~normalizeReturns(OrZero(data.rotation))
       THEN /\ proc' = "hung"
            /\ UNCHANGED <<players, win>>
       ELSE /\ players' = [players EXCEPT ![s] = Moved(@, data, sockets[s].nickname)]
            /\ win' = Counted(s)
            /\ UNCHANGED proc
    /\ UNCHANGED <<closed, activeNicknames, now>>
    /\ UNCHANGED <<apiVars, dbVars, clientVars>>

\* socket.on('playerMove')
PlayerMove(s, data) ==
    /\ proc = "running"
    /\ s \in DOMAIN sockets
    /\ last' = [ev |-> "playerMove", id |-> s, payload |-> data]
    /\ sent' = EmptyBag
    /\ IF RateLimited(sockets[s].lastMoveAt, now)
       THEN UNCHANGED <<sockets, players, proc, win>>
       ELSE /\ sockets' = [sockets EXCEPT ![s].lastMoveAt = now]
            /\ IF s \notin DOMAIN players
               THEN UNCHANGED <<players, proc, win>>
               ELSE IF ~normalizeReturns(OrZero(data.rotation))
               THEN /\ proc' = "hung"
                    /\ UNCHANGED <<players, win>>
               ELSE /\ players' = [players EXCEPT ![s] = Moved(@, data, sockets[s].nickname)]
                    /\ win' = Counted(s)
                    /\ UNCHANGED proc
    /\ UNCHANGED <<closed, activeNicknames, now>>
    /\ UNCHANGED <<apiVars, dbVars, clientVars>>

\* variant: without the test of players[socket.id], a record is made for the colours
PlayerCustomizeNoGuard(s, colors) ==
    /\ proc = "running"
    /\ s \in DOMAIN sockets
    /\ last' = [ev |-> "playerCustomize", id |-> s, payload |-> colors]
    /\ sent' = EmptyBag
    /\ players' = IF s \in DOMAIN players THEN [players EXCEPT ![s].colors = colors]
                  ELSE Put(players, s, [colors |-> colors])
    /\ UNCHANGED <<sockets, closed, activeNicknames, now, proc, win>>
    /\ UNCHANGED <<apiVars, dbVars, clientVars>>

\* socket.on('playerCustomize')
PlayerCustomize(s, colors) ==
    /\ proc = "running"
    /\ s \in DOMAIN sockets
    /\ last' = [ev |-> "playerCustomize", id |-> s, payload |-> colors]
    /\ sent' = EmptyBag
    /\ players' = IF s \in DOMAIN players THEN [players EXCEPT ![s].colors = colors] ELSE players
    /\ UNCHANGED <<sockets, closed, activeNicknames, now, proc, win>>
    /\ UNCHANGED <<apiVars, dbVars, clientVars>>

\* socket.on('equipHat')
EquipHat(s, hatId) ==
    /\ proc = "running"
    /\ s \in DOMAIN sockets
    /\ last' = [ev |-> "equipHat", id |-> s, payload |-> hatId]
    /\ players' = IF s \in DOMAIN players THEN [players EXCEPT ![s].hatId = hatId] ELSE players
    /\ sent' = EmitRoom(s, sockets[s].roomName, "playerHatChanged", [playerId |-> s, hatId |-> hatId])
    /\ UNCHANGED <<sockets, closed, activeNicknames, now, proc, win>>
    /\ UNCHANGED <<apiVars, dbVars, clientVars>>

\* A handler that only relays: it changes no state and emits the bag em
Relay(s, ev, payload, em) ==
    /\ proc = "running"
    /\ s \in DOMAIN sockets
    /\ last' = [ev |-> ev, id |-> s, payload |-> payload]
    /\ sent' = em
    /\ UNCHANGED <<sockets, closed, players, activeNicknames, now, proc, win>>
    /\ UNCHANGED <<apiVars, dbVars, clientVars>>

\* socket.on('chat')
Chat(s, msg) ==
    Relay(s, "chat", msg,
          EmitRoom(s, sockets[s].roomName, "chat",
                   [playerId |-> s, nickname |-> sockets[s].nickname, message |-> msg]))

\* socket.on("equipTool")
EquipTool(s, tool) ==
    Relay(s, "equipTool", tool,
          EmitOthers(s, sockets[s].roomName, "remoteEquip", [playerId |-> s, tool |-> tool]))

\* socket.on("unequipTool")
UnequipTool(s, tool) ==
    Relay(s, "unequipTool", tool,
          EmitOthers(s, sockets[s].roomName, "remoteUnequip", [playerId |-> s, tool |-> tool]))

\* variant: dance is sent with io.to, the sender included
DanceToAll(s) == Relay(s, "dance", "", EmitRoom(s, sockets[s].roomName, "dance", s))

\* socket.on('dance')
Dance(s) == Relay(s, "dance", "", EmitOthers(s, sockets[s].roomName, "dance", s))

\* socket.on('stopDance')
StopDance(s) == Relay(s, "stopDance", "", EmitOthers(s, sockets[s].roomName, "stopDance", s))

\* socket.on('launchRocket')
LaunchRocket(s, data) ==
    Relay(s, "launchRocket", data, EmitRoom(s, sockets[s].roomName, "spawnRocket", data))

\* socket.on('explosion')
Explosion(s, data) ==
    Relay(s, "explosion", data, EmitRoom(s, sockets[s].roomName, "explosion", data))

\* variant: the server sends the victim back to the spawn pose
PlayerHitRespawns(s, killer, victim) ==
    /\ proc = "running"
    /\ s \in DOMAIN sockets
    /\ last' = [ev |-> "playerHit", id |-> s, payload |-> [killer |-> killer, victim |-> victim]]
    /\ sent' = EmitRoom(s, sockets[s].roomName, "playerDied", [killer |-> killer, victim |-> victim])
    /\ players' = [i \in DOMAIN players |->
                      IF players[i].nickname = victim
                      THEN NewPlayer(i, victim, players[i].room)
                      ELSE players[i]]
    /\ UNCHANGED <<sockets, closed, activeNicknames, now, proc, win>>
    /\ UNCHANGED <<apiVars, dbVars, clientVars>>

\* socket.on('playerHit')
PlayerHit(s, killer, victim) ==
    Relay(s, "playerHit", [killer |-> killer, victim |-> victim],
          EmitRoom(s, sockets[s].roomName, "playerDied", [killer |-> killer, victim |-> victim]))

\* socket.on('playerRagdoll')
PlayerRagdoll(s, data) ==
    Relay(s, "playerRagdoll", data, EmitRoom(s, sockets[s].roomName, "playerRagdoll", data))

\* variant: the cooldown still holds at exactly 20 s
DanielCoolingInclusive(lastDaniel, t) == lastDaniel # 0 /\ t - lastDaniel <= DANIEL_COOLDOWN

\* socket.lastDaniel && Date.now() - socket.lastDaniel < 20000
DanielCooling(lastDaniel, t) == lastDaniel # 0 /\ t - lastDaniel < DANIEL_COOLDOWN

\* socket.on('danielCommand')
DanielCommand(s) ==
    /\ proc = "running"
    /\ s \in DOMAIN sockets
    /\ last' = [ev |-> "danielCommand", id |-> s, payload |-> ""]
    /\ IF sockets[s].nickname = DANIEL /\ ~DanielCooling(sockets[s].lastDaniel, now)
       THEN /\ sockets' = [sockets EXCEPT ![s].lastDaniel = now]
            /\ sent' = EmitRoom(s, sockets[s].roomName, "danielEvent", "")
       ELSE /\ sent' = EmptyBag
            /\ UNCHANGED sockets
    /\ UNCHANGED <<closed, players, activeNicknames, now, proc, win>>
    /\ UNCHANGED <<apiVars, dbVars, clientVars>>

\* for (let id in players) if (players[id].room === roomName && players[id].nickname === target)
TargetInRoom(roomName, target) ==
    \E id \in DOMAIN players : players[id].room = roomName /\ players[id].nickname = target

\* variant: the target is looked for in every room
AdminExplodeAnyRoom(s, target) ==
    Relay(s, "adminExplode", target,
          IF sockets[s].nickname = ADMIN /\ \E id \in DOMAIN players : players[id].nickname = target
          THEN EmitRoom(s, sockets[s].roomName, "adminExplode", [target |-> target])
          ELSE EmptyBag)

\* variant: adminExplode without the test of socket.nickname
AdminExplodeAnyone(s, target) ==
    Relay(s, "adminExplode", target,
          IF TargetInRoom(sockets[s].roomName, target)
          THEN EmitRoom(s, sockets[s].roomName, "adminExplode", [target |-> target])
          ELSE EmptyBag)

\* socket.on('adminExplode')
AdminExplode(s, target) ==
    Relay(s, "adminExplode", target,
          IF sockets[s].nickname = ADMIN /\ TargetInRoom(sockets[s].roomName, target)
          THEN EmitRoom(s, sockets[s].roomName, "adminExplode", [target |-> target])
          ELSE EmptyBag)

\* 'adminFly': io.on('connection') registers no listener for it, so Socket.IO
\* hands the event to no one
AdminFly(s, target) == Relay(s, "adminFly", target, EmptyBag)

\* The events whose listener destructures its parameter ({ nickname }, { hatId },
\* { killer, victim }, { target }) or reads a field of it (data.tool)
NeedsPayload == {"register", "equipHat", "equipTool", "unequipTool", "playerHit", "adminExplode"}

\* A listener of NeedsPayload called with no payload (socket.emit('register')): it
\* throws a TypeError before it does anything; no listener has a try and the
\* process has no 'uncaughtException' handler, so the process ends
NoPayload(s, ev) ==
    /\ proc = "running"
    /\ s \in DOMAIN sockets
    /\ ev \in NeedsPayload
    /\ last' = [ev |-> ev, id |-> s, payload |-> Absent]
    /\ sent' = EmptyBag
    /\ proc' = "crashed"
    /\ UNCHANGED <<sockets, closed, players, activeNicknames, now, win>>
    /\ UNCHANGED <<apiVars, dbVars, clientVars>>

\* const r = p.room || 'default'
TickRoom(p) == IF p.room = "" THEN "default" ELSE p.room

\* variant: the snapshot carries the positions only
ByRoomPositions(r) ==
    [i \in {j \in DOMAIN players : TickRoom(players[j]) = r} |->
        [f \in {"id", "x", "y", "z"} |-> players[i][f]]]

\* byRoom[r]
ByRoom(r) == [i \in {j \in DOMAIN players : TickRoom(players[j]) = r} |-> players[i]]

\* setInterval game loop: io.to(r).volatile.emit('gameState', state) for each room of byRoom
GameLoop ==
    /\ proc = "running"
    /\ last' = [ev |-> "tick", id |-> "", payload |-> ""]
    /\ sent' = SetToBag({Msg("gameState", r, ByRoom(r), t, TRUE) :
                            <<r, t>> \in {rt \in {TickRoom(players[i]) : i \in DOMAIN players} \X DOMAIN sockets :
                                            rt[2] \in Members(rt[1])}})
    /\ UNCHANGED <<sockets, closed, players, activeNicknames, now, proc, win>>
    /\ UNCHANGED <<apiVars, dbVars, clientVars>>

\* Time passes: Date.now() grows by d, in a run that is watched until end
Advance(d, end) ==
    /\ proc = "running"
    /\ now + d <= end
    /\ now' = now + d
    /\ UNCHANGED <<sockets, closed, players, activeNicknames, proc, last, sent, win>>
    /\ UNCHANGED <<apiVars, dbVars, clientVars>>

\* The observer starts watching socket s for one second
Watch(s) ==
    /\ proc = "running"
    /\ win = NoWindow
    /\ s \in DOMAIN sockets
    /\ win' = [id |-> s, start |-> now, count |-> 0]
    /\ UNCHANGED <<sockets, closed, players, activeNicknames, now, proc, last, sent>>
    /\ UNCHANGED <<apiVars, dbVars, clientVars>>

----------------------------------------------------------------------------
\* The inputs the clients send
Nicks == {DANIEL, ADMIN, Undefined}
AuthRooms == {Absent, "lobby"}
CustomColors == [head |-> "#000000", torso |-> "#FFFFFF", arms |-> "#000000", legs |-> "#FFFFFF"]
MoveData(x, y, z, rotation, isMoving, isInAir) ==
    [x |-> x, y |-> y, z |-> z, rotation |-> rotation, isMoving |-> isMoving, isInAir |-> isInAir]
\* playerMove({x: 999, y: -5, z: 0, rotation: 10, isMoving: true})
FarMove == MoveData(Num(999), Num(-5), Num(0), Num(10000), JsTrue, JsUndef)
\* playerMove() with no payload
NoData == MoveData(JsUndef, JsUndef, JsUndef, JsUndef, JsUndef, JsUndef)
Moves ==
    { FarMove, NoData,
      MoveData(Num(-999), Num(999), Num(251), Num(-10000), JsFalse, JsTrue),
      MoveData(Num(7), Num(42), Num(-250), Num(PI), JsStr, Num(0)),
      MoveData(JsStr, JsNull, JsTrue, Num(-PI), Num(1), JsNull),
      MoveData(JsInf, JsNegInf, JsNegHuge, Num(3 * PI), JsUndef, JsUndef),
      MoveData(JsNegInf, JsHuge, JsInf, Num(-3 * PI), JsUndef, JsUndef),
      MoveData(Num(250), Num(500), Num(-251), Num(PI + 1), JsUndef, JsUndef),
      MoveData(Num(1), Num(0), Num(2), Num(-PI - 1), JsUndef, JsUndef),
      MoveData(Num(1), Num(1), Num(1), JsStr, JsUndef, JsUndef),
      MoveData(Num(2), Num(2), Num(2), JsTrue, JsUndef, JsUndef),
      MoveData(Num(3), Num(3), Num(3), JsInf, JsUndef, JsUndef),
      MoveData(Num(4), Num(4), Num(4), JsNegHuge, JsUndef, JsUndef) }

\* Every handler of the server and its game loop, for two sockets whose messages
\* all arrive within one millisecond
Next ==
    \/ \E s \in {"s1", "s2"}, a \in AuthRooms \cup DOMAIN sockets : Connect(s, a)
    \/ \E s \in DOMAIN sockets, n \in Nicks : Register(s, n)
    \/ \E s \in DOMAIN sockets : Disconnect(s)
    \/ \E s \in DOMAIN sockets : PlayerMove(s, FarMove)
    \/ \E s \in DOMAIN sockets : PlayerCustomize(s, DefaultColors)
    \/ \E s \in DOMAIN sockets : EquipHat(s, Null)
    \/ \E s \in DOMAIN sockets : Chat(s, "hi")
    \/ \E s \in DOMAIN sockets : EquipTool(s, "rocket")
    \/ \E s \in DOMAIN sockets : UnequipTool(s, "rocket")
    \/ \E s \in DOMAIN sockets : Dance(s)
    \/ \E s \in DOMAIN sockets : StopDance(s)
    \/ \E s \in DOMAIN sockets : LaunchRocket(s, "data")
    \/ \E s \in DOMAIN sockets : Explosion(s, "data")
    \/ \E s \in DOMAIN sockets : PlayerHit(s, DANIEL, ADMIN)
    \/ \E s \in DOMAIN sockets : PlayerRagdoll(s, "data")
    \/ \E s \in DOMAIN sockets : DanielCommand(s)
    \/ \E s \in DOMAIN sockets, t \in Nicks : AdminExplode(s, t)
    \/ GameLoop

Spec == Init /\ [][Next]_vars

\* Registration and the game loop for three sockets, none of which asks for a room
\* named like a socket id
NextTick ==
    \/ \E s \in {"s1", "s2", "s3"}, a \in AuthRooms \cup {EmptyArray} : Connect(s, a)
    \/ \E s \in DOMAIN sockets, n \in Nicks : Register(s, n)
    \/ \E s \in DOMAIN sockets : Disconnect(s)
    \/ \E s \in DOMAIN sockets : PlayerMove(s, FarMove)
    \/ GameLoop

SpecTick == Init /\ [][NextTick]_vars

\* The handlers that write the Player State Store, for one socket, with the clock
NextMove ==
    \/ \E a \in {Absent, EmptyArray} : Connect("s1", a)
    \/ \E n \in {DANIEL, Undefined} : Register("s1", n)
    \/ Disconnect("s1")
    \/ \E d \in Moves : PlayerMove("s1", d)
    \/ PlayerCustomize("s1", CustomColors)
    \/ EquipHat("s1", "hat1")
    \/ GameLoop
    \/ \E d \in {33, 34} : Advance(d, MoveEnd)

SpecMove == Init /\ [][NextMove]_vars

\* The rate limiter of playerMove for one socket, watched over one second
NextRate ==
    \/ Connect("s1", Absent)
    \/ Register("s1", Undefined)
    \/ Disconnect("s1")
    \/ PlayerMove("s1", FarMove)
    \/ Advance(34, RateEnd)
    \/ Watch("s1")

SpecRate == Init /\ [][NextRate]_vars

\* The messages the listeners do not expect, for two sockets: an event that has no
\* listener, and events that come without a payload
NextUnexpected ==
    \/ \E s \in {"s1", "s2"}, a \in AuthRooms : Connect(s, a)
    \/ \E s \in DOMAIN sockets, n \in Nicks : Register(s, n)
    \/ \E s \in DOMAIN sockets : Disconnect(s)
    \/ \E s \in DOMAIN sockets, t \in Nicks : AdminExplode(s, t)
    \/ \E s \in DOMAIN sockets, t \in Nicks : AdminFly(s, t)
    \/ \E s \in DOMAIN sockets, ev \in NeedsPayload : NoPayload(s, ev)

SpecUnexpected == Init /\ [][NextUnexpected]_vars

\* The handlers that write the Player State Store without sending, for two sockets
\* of one room, with the clock
NextPair ==
    \/ \E s \in {"s1", "s2"} : Connect(s, Absent)
    \/ \E s \in DOMAIN sockets, n \in {DANIEL, ADMIN} : Register(s, n)
    \/ \E s \in DOMAIN sockets : Disconnect(s)
    \/ \E s \in DOMAIN sockets, d \in {FarMove, NoData} : PlayerMove(s, d)
    \/ \E s \in DOMAIN sockets : PlayerCustomize(s, CustomColors)
    \/ \E d \in {33, 34} : Advance(d, MoveEnd)

SpecPair == Init /\ [][NextPair]_vars

\* danielCommand for two sockets of one room, with a clock that steps by about ten
\* seconds
NextDaniel ==
    \/ \E s \in {"s1", "s2"} : Connect(s, Absent)
    \/ \E s \in DOMAIN sockets, n \in {DANIEL, ADMIN} : Register(s, n)
    \/ \E s \in DOMAIN sockets : Disconnect(s)
    \/ \E s \in DOMAIN sockets : DanielCommand(s)
    \/ \E d \in {9999, 10001} : Advance(d, DanielEnd)

SpecDaniel == Init /\ [][NextDaniel]_vars

----------------------------------------------------------------------------
(* The global-broadcast server (src/server.js): one implicit room, no nicknames.     *)
(* It is a program of its own; its model uses the same variables, with               *)
(*   sockets : id -> [equipListeners, lastAnimAt]                                    *)
(*   players : id -> the record of io.on('connection'), fields as JavaScript values  *)
(* and leaves activeNicknames and win as they start.                                 *)

JsNaN == [k |-> "nan", v |-> 0]

\* io.emit(ev, payload) and socket.broadcast.emit(ev, payload): one message for each
\* socket of to
Broadcast(s, ev, payload, to) == SetToBag({Msg(ev, s, payload, t, FALSE) : t \in to})

\* n listeners of one event that each emit the messages of the bag em
Times(n, em) == [m \in (IF n = 0 THEN {} ELSE DOMAIN em) |-> n * em[m]]

\* players[socket.id] = { id, x: 0, y: 3, z: 0, rotation: 0, isMoving: false, colors }
GlobalNewPlayer(s) ==
    [id |-> s, x |-> Num(0), y |-> Num(3), z |-> Num(0), rotation |-> Num(0),
     isMoving |-> JsFalse, colors |-> DefaultColors]

\* The io.on("connection") listeners nested in the connection listener: each
\* connection adds one to io, and a listener added while 'connection' is being
\* emitted is not called for that emit, so a new socket gets one equipTool and one
\* unequipTool listener from each connection made before it
NestedListeners == Cardinality(DOMAIN sockets \cup closed)

\* io.on('connection') of server.js
GlobalConnect(s) ==
    /\ proc = "running"
    /\ s \notin DOMAIN sockets \cup closed
    /\ s = SidOrder[Cardinality(DOMAIN sockets \cup closed) + 1]
    /\ sockets' = Put(sockets, s, [equipListeners |-> NestedListeners, lastAnimAt |-> 0])
    /\ players' = Put(players, s, GlobalNewPlayer(s))
    /\ last' = [ev |-> "connection", id |-> s, payload |-> ""]
    /\ sent' = Broadcast(s, "initialPlayers", players, {s})
               (+) Broadcast(s, "playerJoined", GlobalNewPlayer(s), DOMAIN sockets)
    /\ UNCHANGED <<closed, activeNicknames, now, proc, win>>
    /\ UNCHANGED <<apiVars, dbVars, clientVars>>

\* socket.on('disconnect') of server.js
GlobalDisconnect(s) ==
    /\ proc = "running"
    /\ s \in DOMAIN sockets
    /\ last' = [ev |-> "disconnect", id |-> s, payload |-> ""]
    /\ players' = Drop(players, s)
    /\ sockets' = Drop(sockets, s)
    /\ closed' = closed \cup {s}
    /\ sent' = Broadcast(s, "playerLeft", s, DOMAIN sockets \ {s})
    /\ UNCHANGED <<activeNicknames, now, proc, win>>
    /\ UNCHANGED <<apiVars, dbVars, clientVars>>

\* A handler of server.js that only relays
GlobalRelay(s, ev, payload, em) ==
    /\ proc = "running"
    /\ s \in DOMAIN sockets
    /\ last' = [ev |-> ev, id |-> s, payload |-> payload]
    /\ sent' = em
    /\ UNCHANGED <<sockets, closed, players, activeNicknames, now, proc, win>>
    /\ UNCHANGED <<apiVars, dbVars, clientVars>>

\* socket.on('chat') of the first io.on('connection')
GlobalChat(s, msg) ==
    GlobalRelay(s, "chat", msg,
                Broadcast(s, "chat", [playerId |-> s, message |-> msg], DOMAIN sockets))

\* socket.on("equipTool"), as many times as the socket has the listener
GlobalEquipTool(s, tool) ==
    GlobalRelay(s, "equipTool", tool,
                Times(sockets[s].equipListeners,
                      Broadcast(s, "remoteEquip", [playerId |-> s, tool |-> tool],
                                DOMAIN sockets \ {s})))

\* socket.on("unequipTool"), as many times as the socket has the listener
GlobalUnequipTool(s, tool) ==
    GlobalRelay(s, "unequipTool", tool,
                Times(sockets[s].equipListeners,
                      Broadcast(s, "remoteUnequip", [playerId |-> s, tool |-> tool],
                                DOMAIN sockets \ {s})))

\* socket.on('dance') and socket.on('stopDance') of server.js
GlobalDance(s) == GlobalRelay(s, "dance", "", Broadcast(s, "dance", s, DOMAIN sockets \ {s}))
GlobalStopDance(s) ==
    GlobalRelay(s, "stopDance", "", Broadcast(s, "stopDance", s, DOMAIN sockets \ {s}))

\* socket.on('playerMove') of server.js: the fields are stored as they come
GlobalPlayerMove(s, data) ==
    /\ proc = "running"
    /\ s \in DOMAIN sockets
    /\ last' = [ev |-> "playerMove", id |-> s, payload |-> data]
    /\ players' = IF s \in DOMAIN players
                  THEN [players EXCEPT ![s].x = data.x, ![s].y = data.y, ![s].z = data.z,
                                       ![s].rotation = data.rotation,
                                       ![s].isMoving = data.isMoving]
                  ELSE players
    /\ sent' = EmptyBag
    /\ UNCHANGED <<sockets, closed, activeNicknames, now, proc, win>>
    /\ UNCHANGED <<apiVars, dbVars, clientVars>>

\* socket.on('playerCustomize') of server.js
GlobalPlayerCustomize(s, colors) ==
    /\ proc = "running"
    /\ s \in DOMAIN sockets
    /\ last' = [ev |-> "playerCustomize", id |-> s, payload |-> colors]
    /\ players' = IF s \in DOMAIN players THEN [players EXCEPT ![s].colors = colors] ELSE players
    /\ sent' = EmptyBag
    /\ UNCHANGED <<sockets, closed, activeNicknames, now, proc, win>>
    /\ UNCHANGED <<apiVars, dbVars, clientVars>>

\* a - b and Math.max(0, v) of JavaScript: not a number unless the operands are numbers
JsMinus(a, b) == IF a.k = "num" /\ b.k = "num" THEN Num(a.v - b.v) ELSE JsNaN
MathMax0(v) == IF v.k = "num" THEN Num(MaxOf(0, v.v)) ELSE JsNaN

\* players[data.targetId].health, undefined until a damage has set it
HealthOf(p) == IF "health" \in DOMAIN p THEN p.health ELSE JsUndef

\* The two assignments of the damage listener
Damaged(p, amount) ==
    LET health == MathMax0(JsMinus(HealthOf(p), amount))
    IN  Put(Put(p, "health", health), "dead", health.k = "num" /\ health.v <= 0)

\* socket.on('damage')
GlobalDamage(s, targetId, amount) ==
    /\ proc = "running"
    /\ s \in DOMAIN sockets
    /\ last' = [ev |-> "damage", id |-> s, payload |-> [targetId |-> targetId, amount |-> amount]]
    /\ IF targetId \in DOMAIN players
       THEN /\ players' = [players EXCEPT ![targetId] = Damaged(@, amount)]
            /\ sent' = Broadcast(s, "gameState", players', DOMAIN sockets)
       ELSE /\ players' = players
            /\ sent' = EmptyBag
    /\ UNCHANGED <<sockets, closed, activeNicknames, now, proc, win>>
    /\ UNCHANGED <<apiVars, dbVars, clientVars>>

\* The first playerAnim listener (the client's animation code): it reads
\* remotePlayers[id], a name server.js never declares, and throws a ReferenceError
\* for every payload that has fields (a TypeError at data.playerId for one that has
\* none)
FirstPlayerAnimThrows(data) == TRUE

\* if (now - socket.lastAnimAt < 150) return, with socket.lastAnimAt || 0
AnimThrottled(lastAnimAt, t) == t - lastAnimAt < 150

\* The two playerAnim listeners in the order they were added: an exception of the
\* first one leaves emit before the second one, the relay, is called, and nothing
\* catches it
GlobalPlayerAnim(s, data) ==
    /\ s \in DOMAIN sockets
    /\ proc = "running"
    /\ last' = [ev |-> "playerAnim", id |-> s, payload |-> data]
    /\ IF FirstPlayerAnimThrows(data)
       THEN /\ proc' = "crashed"
            /\ sent' = EmptyBag
            /\ sockets' = sockets
       ELSE /\ proc' = proc
            /\ IF data.anim.k # "str" \/ AnimThrottled(sockets[s].lastAnimAt, now)
               THEN sent' = EmptyBag /\ sockets' = sockets
               ELSE /\ sockets' = [sockets EXCEPT ![s].lastAnimAt = now]
                    /\ sent' = Broadcast(s, "playerAnim",
                                         [playerId |-> s, anim |-> data.anim, timestamp |-> now],
                                         DOMAIN sockets \ {s})
    /\ UNCHANGED <<closed, players, activeNicknames, now, win>>
    /\ UNCHANGED <<apiVars, dbVars, clientVars>>

\* setInterval(() => io.emit('gameState', players)) of server.js
GlobalGameLoop ==
    /\ proc = "running"
    /\ last' = [ev |-> "tick", id |-> "", payload |-> ""]
    /\ sent' = Broadcast("", "gameState", players, DOMAIN sockets)
    /\ UNCHANGED <<sockets, closed, players, activeNicknames, now, proc, win>>
    /\ UNCHANGED <<apiVars, dbVars, clientVars>>

\* Every handler of server.js and its game loop, for three sockets
NextGlobal ==
    \/ \E s \in {"s1", "s2", "s3"} : GlobalConnect(s)
    \/ \E s \in DOMAIN sockets : GlobalDisconnect(s)
    \/ \E s \in DOMAIN sockets : GlobalChat(s, "hi")
    \/ \E s \in DOMAIN sockets : GlobalEquipTool(s, "rocket")
    \/ \E s \in DOMAIN sockets : GlobalUnequipTool(s, "rocket")
    \/ \E s \in DOMAIN sockets : GlobalDance(s)
    \/ \E s \in DOMAIN sockets : GlobalStopDance(s)
    \/ \E s \in DOMAIN sockets : GlobalPlayerMove(s, FarMove)
    \/ \E s \in DOMAIN sockets : GlobalPlayerCustomize(s, CustomColors)
    \/ \E s \in DOMAIN sockets, t \in {"s1", "s2"} : GlobalDamage(s, t, Num(10))
    \/ \E s \in DOMAIN sockets : GlobalPlayerAnim(s, [anim |-> JsStr, loop |-> JsTrue])
    \/ GlobalGameLoop

SpecGlobal == Init /\ [][NextGlobal]_vars

----------------------------------------------------------------------------
(* The map persistence API of src/unnamed/part_001: GET /api/maps,                   *)
(* GET /api/maps/:name and POST /api/maps/:name. A name is the sequence of its       *)
(* characters; the file of a map is MAPS_DIR/<base name>.json.                       *)

\* [a-zA-Z0-9_\-]
SafeChars ==
    {"a", "b", "c", "d", "e", "f", "g", "h", "i", "j", "k", "l", "m",
     "n", "o", "p", "q", "r", "s", "t", "u", "v", "w", "x", "y", "z",
     "A", "B", "C", "D", "E", "F", "G", "H", "I", "J", "K", "L", "M",
     "N", "O", "P", "Q", "R", "S", "T", "U", "V", "W", "X", "Y", "Z",
     "0", "1", "2", "3", "4", "5", "6", "7", "8", "9", "_", "-"}

\* .slice(0, 64)
NAME_MAX == 64

\* bound: the length of the longest name requested
LongLen == 65

IsSafeChar(c) == c \in SafeChars

\* variant: the name is cleaned and not cut
safeUncut(name) == SelectSeq(name, IsSafeChar)

\* const safe = String(req.params.name || '').replace(/[^a-zA-Z0-9_\-]/g, '').slice(0, 64)
safe(name) ==
    LET kept == SelectSeq(name, IsSafeChar)
    IN  SubSeq(kept, 1, MinOf(NAME_MAX, Len(kept)))

\* req.body in the handler of POST: app.use(express.json(...)) is mounted after the
\* routes, so no body parser has run when the route handles the request and
\* req.body is undefined whatever JSON the client sent
ReqBody(body) == [k |-> "undef", v |-> body]

\* data.name = safe; data.updatedAt = ...; if (!data.createdAt) data.createdAt = data.updatedAt
StoredMap(data, name, t) ==
    LET d == Put(Put(data, "name", name), "updatedAt", t)
    IN  IF "createdAt" \in DOMAIN d THEN d ELSE Put(d, "createdAt", t)

\* An HTTP handler: it answers status / body, having passed the base names files to fs
Answer(ev, payload, status, body, files) ==
    /\ last' = [ev |-> ev, id |-> "", payload |-> payload]
    /\ res' = [status |-> status, body |-> body]
    /\ fsCalls' = files
    /\ UNCHANGED <<relayVars, dbVars, clientVars>>

\* app.get('/api/maps'): lists the directory
ListMaps ==
    /\ Answer("GET /api/maps", "", 200, [maps |-> DOMAIN maps], {})
    /\ UNCHANGED maps

\* app.get('/api/maps/:name')
GetMap(name) ==
    /\ IF safe(name) = <<>>
       THEN Answer("GET /api/maps/:name", name, 400, [error |-> "Invalid name"], {})
       ELSE IF safe(name) \notin DOMAIN maps
       THEN Answer("GET /api/maps/:name", name, 404, [error |-> "Not found"], {safe(name)})
       ELSE Answer("GET /api/maps/:name", name, 200, maps[safe(name)], {safe(name)})
    /\ UNCHANGED maps

\* app.post('/api/maps/:name'), the client having sent the JSON object body
PostMap(name, body) ==
    LET data == ReqBody(body)
        req == [name |-> name, body |-> body]
    IN  IF safe(name) = <<>>
        THEN /\ Answer("POST /api/maps/:name", req, 400, [error |-> "Invalid name"], {})
             /\ UNCHANGED maps
        ELSE IF data.k # "object"
        THEN /\ Answer("POST /api/maps/:name", req, 400, [error |-> "Invalid JSON body"], {})
             /\ UNCHANGED maps
        ELSE /\ Answer("POST /api/maps/:name", req, 200, [ok |-> TRUE, name |-> safe(name)],
                       {safe(name)})
             /\ maps' = Put(maps, safe(name), StoredMap(data.v, safe(name), now))

\* The names the clients ask for
LongName == [i \in 1..LongLen |-> "a"]
MapNames ==
    { <<"m", "1">>, <<".", ".", "/", "m", "1">>, <<".", ".", "/">>, <<" ">>,
      <<"m", "a", "p", "_", "2", "-", "b">>, <<"m", "a", "p", ".", "2", "/", "b">>,
      <<"n", "e", "w">>, <<"N", "e", "w", "!">>, LongName }
MapBodies == { [blocks |-> 1], [blocks |-> 2, name |-> <<"x">>], [blocks |-> 3, createdAt |-> 5] }

\* The maps directory holds the files earlier runs and deployments left in it
FilesOnDisk ==
    [n \in {<<"m", "1">>, <<"m", "a", "p", "_", "2", "-", "b">>, SubSeq(LongName, 1, NAME_MAX)} |->
        [name |-> n, blocks |-> Len(n), createdAt |-> 1, updatedAt |-> 1]]

InitMaps ==
    /\ sockets = NoOne
    /\ closed = {}
    /\ players = NoOne
    /\ activeNicknames = NoOne
    /\ now = T0
    /\ proc = "running"
    /\ last = [ev |-> "listen", id |-> "", payload |-> ""]
    /\ sent = EmptyBag
    /\ win = NoWindow
    /\ maps \in {[n \in d |-> FilesOnDisk[n]] : d \in SUBSET DOMAIN FilesOnDisk}
    /\ res = NoResponse
    /\ fsCalls = {}
    /\ rows = NoOne
    /\ otherPlayers = NoOne
    /\ scene = {}
    /\ loads = {}
    /\ equippedTool = Null
    /\ isEquipping = FALSE
    /\ emitted = <<>>

NextMaps ==
    \/ ListMaps
    \/ \E name \in MapNames : GetMap(name)
    \/ \E name \in MapNames, body \in MapBodies : PostMap(name, body)

SpecMaps == InitMaps /\ [][NextMaps]_vars

----------------------------------------------------------------------------
(* The client (src/unnamed/part_000): the avatars of the remote players and the      *)
(* rocket launcher of the local player. The browser runs every handler and every     *)
(* load callback to completion, so each is one action. An avatar is [id, n]: the     *)
(* n-th object made for player id; the local player exists and its socket is         *)
(* connected.                                                                        *)

\* playerId = socket.id
playerId == "me"

\* bounds: the objects (loads and avatars) alive for one player id, and the messages
\* recorded in emitted
MaxObjects == 2
MaxEmitted == 3

Objects == loads \cup scene \cup Range(otherPlayers)

\* The object a new GLTFLoader().load(...) will make for player id
Fresh(id) ==
    [id |-> id, n |-> CHOOSE n \in 1..MaxObjects :
                         /\ [id |-> id, n |-> n] \notin Objects
                         /\ \A k \in 1..(n - 1) : [id |-> id, n |-> k] \in Objects]

HasRoom(id) == \E n \in 1..MaxObjects : [id |-> id, n |-> n] \notin Objects

\* A handler of the client that leaves the tool alone
ClientHandled(ev, payload) ==
    /\ last' = [ev |-> ev, id |-> playerId, payload |-> payload]
    /\ UNCHANGED <<relayVars, apiVars, dbVars, equippedTool, isEquipping, emitted>>

\* socket.on('initialPlayers'): a load is started for every player but the local one
ClientInitialPlayers(serverPlayers) ==
    /\ \A id \in serverPlayers \ {playerId} : HasRoom(id)
    /\ loads' = loads \cup {Fresh(id) : id \in serverPlayers \ {playerId}}
    /\ UNCHANGED <<otherPlayers, scene>>
    /\ ClientHandled("initialPlayers", serverPlayers)

\* socket.on('playerJoined')
ClientPlayerJoined(id) ==
    /\ id # playerId => HasRoom(id)
    /\ loads' = IF id # playerId THEN loads \cup {Fresh(id)} ELSE loads
    /\ UNCHANGED <<otherPlayers, scene>>
    /\ ClientHandled("playerJoined", id)

\* The callback of loader.load, in initialPlayers, playerJoined and gameState alike:
\* otherPlayers[playerData.id] = remotePlayer; scene.add(remotePlayer)
LoadDone(l) ==
    /\ l \in loads
    /\ loads' = loads \ {l}
    /\ otherPlayers' = Put(otherPlayers, l.id, l)
    /\ scene' = scene \cup {l}
    /\ ClientHandled("load", l)

\* socket.on('gameState'): the avatars of the players the server no longer lists are
\* removed, a load is started for every listed player that otherPlayers lacks
ClientGameState(serverPlayers) ==
    LET gone == DOMAIN otherPlayers \ serverPlayers
        new == {id \in serverPlayers \ {playerId} : id \notin DOMAIN otherPlayers}
    IN  /\ \A id \in new : HasRoom(id)
        /\ scene' = scene \ {otherPlayers[id] : id \in gone}
        /\ otherPlayers' = [id \in DOMAIN otherPlayers \ gone |-> otherPlayers[id]]
        /\ loads' = loads \cup {Fresh(id) : id \in new}
        /\ ClientHandled("gameState", serverPlayers)

\* socket.on('playerLeft')
ClientPlayerLeft(id) ==
    /\ IF id \in DOMAIN otherPlayers
       THEN /\ scene' = scene \ {otherPlayers[id]}
            /\ otherPlayers' = Drop(otherPlayers, id)
       ELSE UNCHANGED <<otherPlayers, scene>>
    /\ UNCHANGED loads
    /\ ClientHandled("playerLeft", id)

\* A step of the local player's tool
ToolHandled(ev) ==
    /\ last' = [ev |-> ev, id |-> playerId, payload |-> ""]
    /\ UNCHANGED <<relayVars, apiVars, dbVars, otherPlayers, scene, loads>>

\* function equipRocketLauncher(), the model loaded and the socket connected
equipRocketLauncher ==
    IF isEquipping \/ equippedTool = "rocketLauncher"
    THEN UNCHANGED <<equippedTool, isEquipping, emitted>>
    ELSE /\ isEquipping' = TRUE
         /\ equippedTool' = "rocketLauncher"
         /\ emitted' = Append(emitted, "equipTool")

\* function unequipTool(): it emits nothing
unequipTool ==
    IF equippedTool # "rocketLauncher"
    THEN UNCHANGED <<equippedTool, isEquipping, emitted>>
    ELSE /\ equippedTool' = Null
         /\ UNCHANGED <<isEquipping, emitted>>

\* The click on equip-tool-btn and the key 1: if (equippedTool) unequipTool() else
\* equipRocketLauncher()
ToggleTool ==
    /\ Len(emitted) < MaxEmitted
    /\ IF equippedTool # Null THEN unequipTool ELSE equipRocketLauncher
    /\ ToolHandled("toggle")

\* animate(): the frame in which the equip animation ends
Animate ==
    /\ isEquipping
    /\ isEquipping' = FALSE
    /\ UNCHANGED <<equippedTool, emitted>>
    /\ ToolHandled("animate")

\* The players the server lists
RemoteIds == {"p1", "p2"}
Listings == SUBSET (RemoteIds \cup {playerId})

NextClient ==
    \/ \E ps \in Listings : ClientInitialPlayers(ps)
    \/ \E id \in RemoteIds \cup {playerId} : ClientPlayerJoined(id)
    \/ \E ps \in Listings : ClientGameState(ps)
    \/ \E id \in RemoteIds : ClientPlayerLeft(id)
    \/ \E l \in loads : LoadDone(l)
    \/ ToggleTool
    \/ Animate

SpecClient == Init /\ [][NextClient]_vars

----------------------------------------------------------------------------
(* The persistence layer (src/database.js): the players table, id TEXT PRIMARY KEY,  *)
(* nickname TEXT UNIQUE NOT NULL. A statement runs to its end before the next one.   *)

\* The rows INSERT OR REPLACE removes before it inserts: REPLACE resolves a conflict
\* on the PRIMARY KEY or on a UNIQUE column by deleting the rows that conflict
Conflicting(id, nickname) ==
    {j \in DOMAIN rows : j = id \/ rows[j].nickname = nickname}

\* A call of the persistence layer
DbCalled(ev, id, payload) ==
    /\ last' = [ev |-> ev, id |-> id, payload |-> payload]
    /\ UNCHANGED <<relayVars, apiVars, clientVars>>

\* function savePlayer(playerId, nickname, playerData): INSERT OR REPLACE INTO players
savePlayer(id, nickname, playerData) ==
    /\ rows' = Put([j \in DOMAIN rows \ Conflicting(id, nickname) |-> rows[j]],
                   id, [nickname |-> nickname, data |-> playerData])
    /\ DbCalled("savePlayer", id, [nickname |-> nickname, data |-> playerData])

\* function deletePlayer(playerId): DELETE FROM players WHERE id = ?
deletePlayer(id) ==
    /\ rows' = [j \in DOMAIN rows \ {id} |-> rows[j]]
    /\ DbCalled("deletePlayer", id, "")

\* The players saved
DbIds == {"u1", "u2", "u3"}
DbNicknames == {"ana", "bob", "cy"}
DbData == {"{}", "{\"coins\":1}"}

NextDb ==
    \/ \E id \in DbIds, n \in DbNicknames, d \in DbData : savePlayer(id, n, d)
    \/ \E id \in DbIds : deletePlayer(id)

SpecDb == Init /\ [][NextDb]_vars

----------------------------------------------------------------------------
\* How many copies of event ev with payload p the last handler sent to socket t
Copies(ev, p, t) ==
    LET ms == {m \in BagToSet(sent) : m.ev = ev /\ m.to = t /\ m.payload = p}
    IN  IF ms = {} THEN 0 ELSE LET m == CHOOSE m \in ms : TRUE IN CopiesIn(m, sent)
\* The same, in the state after the step
CopiesNext(ev, p, t) ==
    LET ms == {m \in BagToSet(sent') : m.ev = ev /\ m.to = t /\ m.payload = p}
    IN  IF ms = {} THEN 0 ELSE LET m == CHOOSE m \in ms : TRUE IN CopiesIn(m, sent')
Admitted(s) == s \in DOMAIN players /\ s \in DOMAIN activeNicknames

\* C1: in every reachable state no two connections hold the same nickname in
\* activeNicknames, whichever rooms they are in.
C1_UniqueNicknames ==
    \A s, t \in DOMAIN activeNicknames : s # t => activeNicknames[s] # activeNicknames[t]

\* C1 witness: two connections of different rooms hold nicknames
C1_Witness ==
    \E t, u \in DOMAIN activeNicknames :
        /\ sockets[t].roomName = "lobby"
        /\ sockets[u].roomName = "default"

\* C2: a register whose nickname is an active value of the registry sends the
\* connection nicknameError, ends its transport session, and leaves it without a
\* PlayerState and without a registry entry.
C2_DuplicateRejected ==
    [][\A s \in DOMAIN sockets :
          (last'.ev = "register" /\ last'.id = s /\ last'.payload \in Range(activeNicknames))
          => /\ CopiesNext("nicknameError", NicknameInUse, s) = 1
             /\ s \notin DOMAIN sockets'
             /\ s \in closed'
             /\ s \notin DOMAIN players'
             /\ s \notin DOMAIN activeNicknames']_vars

\* C2 witness: a register was refused and its sender is gone
C2_Witness ==
    /\ last.ev = "register"
    /\ last.id \in closed
    /\ last.payload \in Range(activeNicknames)
    /\ Copies("nicknameError", NicknameInUse, last.id) = 1
    /\ last.id \notin DOMAIN players

\* C3: when two distinct connections register the same unused nickname, in either
\* order, the one handled first is admitted and stays admitted, the other gets
\* nicknameError and is disconnected.
C3_ExactlyOneWins ==
    [][\A s \in DOMAIN sockets, t \in DOMAIN sockets :
          (/\ s # t
           /\ last.ev = "register" /\ last.id = t /\ Admitted(t)
           /\ last'.ev = "register" /\ last'.id = s /\ last'.payload = last.payload)
          => /\ t \in DOMAIN players' /\ players'[t] = players[t]
             /\ t \in DOMAIN activeNicknames' /\ activeNicknames'[t] = last.payload
             /\ t \in DOMAIN sockets'
             /\ s \notin DOMAIN players' /\ s \notin DOMAIN activeNicknames'
             /\ s \in closed'
             /\ CopiesNext("nicknameError", NicknameInUse, s) = 1
             /\ CopiesNext("nicknameError", NicknameInUse, t) = 0]_vars

\* C3 witness: the second of two registers with one nickname was refused, the
\* first connection holds the nickname, and the second had connected first
C3_Witness ==
    /\ last.ev = "register" /\ last.id = "s1" /\ last.id \in closed
    /\ Copies("nicknameError", NicknameInUse, "s1") = 1
    /\ Admitted("s2") /\ activeNicknames["s2"] = last.payload

\* C4: the ids with a PlayerState are the ids with a registry entry; each such
\* PlayerState carries that id, the registered nickname and the room its
\* connection joined at connect time.
C4_StoreMatchesRegistry ==
    /\ DOMAIN players = DOMAIN activeNicknames
    /\ \A id \in DOMAIN players :
          /\ id \in DOMAIN sockets
          /\ players[id].id = id
          /\ players[id].nickname = activeNicknames[id]
          /\ players[id].room = sockets[id].roomName

\* C4 witness: a player of room lobby that registered and moved, after a
\* connection had left
C4_Witness ==
    /\ closed # {}
    /\ \E id \in DOMAIN players :
          /\ players[id].room = "lobby"
          /\ players[id].x = WORLD_XZ
          /\ players[id].nickname = ADMIN

\* C5: every stored PlayerState has -250 <= x, z <= 250 and 0 <= y <= 500, whatever
\* the clients sent in playerMove.
C5_PositionInBounds ==
    \A id \in DOMAIN players :
        /\ -WORLD_XZ <= players[id].x /\ players[id].x <= WORLD_XZ
        /\ -WORLD_XZ <= players[id].z /\ players[id].z <= WORLD_XZ
        /\ WORLD_YMIN <= players[id].y /\ players[id].y <= WORLD_YMAX

\* C5 witness: a move with x = Infinity, y = -Infinity and a huge negative z was
\* applied and stored at the bounds
C5_Witness ==
    /\ last.ev = "playerMove"
    /\ last.payload.x = JsInf /\ last.payload.y = JsNegInf /\ last.payload.z = JsNegHuge
    /\ last.id \in DOMAIN players
    /\ players[last.id].x = WORLD_XZ
    /\ players[last.id].y = WORLD_YMIN
    /\ players[last.id].z = -WORLD_XZ

C7_AtMostMaxMoveRate == win.count <= MAX_MOVE_RATE

\* C7 witness: MAX_MOVE_RATE moves were applied in the watched second, and a
\* further one was dropped
C7_Witness ==
    /\ win.count = MAX_MOVE_RATE
    /\ last.ev = "playerMove"
    /\ win.id = last.id
    /\ now <= win.start + 1000
    /\ sockets[last.id].lastMoveAt = now

\* The room of a connection: the room it joined at connect time
RoomOf(s) == sockets[s].roomName

\* C8: when a connection disconnects, its registry entry and its PlayerState are
\* removed in that step, every connection remaining in its room receives exactly one
\* playerLeft with its id, and the connections of other rooms receive none.
C8_DisconnectNotifiesRoom ==
    [][\A s \in DOMAIN sockets :
          s \notin DOMAIN sockets'
          => /\ s \notin DOMAIN players'
             /\ s \notin DOMAIN activeNicknames'
             /\ \A t \in DOMAIN sockets' :
                   CopiesNext("playerLeft", s, t) = IF RoomOf(t) = RoomOf(s) THEN 1 ELSE 0]_vars

\* C9: every gameState snapshot the tick sends to a connection of room R holds only
\* PlayerState records whose room is R, and holds every player admitted in R.
C9_SnapshotIsTheRoom ==
    \A m \in BagToSet(sent) :
        m.ev = "gameState"
        => /\ \A id \in DOMAIN m.payload : m.payload[id].room = RoomOf(m.to)
           /\ \A id \in DOMAIN players : players[id].room = RoomOf(m.to) => id \in DOMAIN m.payload

\* The events the handlers route
RoutedEvents ==
    {"chat", "remoteEquip", "remoteUnequip", "dance", "stopDance", "playerHatChanged",
     "spawnRocket", "explosion", "playerRagdoll", "playerDied", "danielEvent",
     "adminExplode", "playerJoined", "playerLeft"}

\* C10: no routed event caused by a message of a connection of room R reaches a
\* connection of another room.
C10_RoutedEventsStayInRoom ==
    [][\A m \in BagToSet(sent') :
          m.ev \in RoutedEvents => RoomOf(m.to) = RoomOf(m.from)]_vars

\* The server state a handler can change, the clock and the observers left out
ServerState == <<sockets, closed, players, activeNicknames, proc>>

\* C11: an adminExplode{target} sent by a connection whose nickname is not the admin
\* name, a connection that never registered included, sends adminExplode to no
\* connection and changes no server state.
C11_NonAdminExplodeIgnored ==
    [][\A s \in DOMAIN sockets :
          (/\ last'.ev = "adminExplode" /\ last'.id = s /\ last'.payload # Absent
           /\ sockets[s].nickname # ADMIN)
          => /\ \A m \in BagToSet(sent') : m.ev # "adminExplode"
             /\ sent' = EmptyBag
             /\ ServerState' = ServerState]_vars

\* C11 witness: a connection registered under another name asked to explode the
\* admin, who is in its room, and nothing was sent
C11_Witness ==
    /\ last.ev = "adminExplode"
    /\ last.id \in DOMAIN players
    /\ players[last.id].nickname = DANIEL
    /\ last.payload = ADMIN
    /\ TargetInRoom(sockets[last.id].roomName, ADMIN)
    /\ sent = EmptyBag
\* C12: an adminFly{target} sent by a connection whose nickname is the admin name,
\* when a player named target is in the sender's room, is delivered once to every
\* connection of that room, the sender included.
C12_AdminFlyReachesRoom ==
    [][\A s \in DOMAIN sockets :
          (/\ last'.ev = "adminFly" /\ last'.id = s
           /\ sockets[s].nickname = ADMIN
           /\ TargetInRoom(RoomOf(s), last'.payload))
          => \A t \in DOMAIN sockets :
                RoomOf(t) = RoomOf(s)
                => CopiesNext("adminFly", [target |-> last'.payload], t) = 1]_vars

\* C14: every handler completes without raising an exception, for every payload,
\* an absent payload included.
C14_HandlersNeverThrow == proc # "crashed"
\* The messages of C13
RelayedMessages ==
    {"chat", "equipTool", "unequipTool", "dance", "stopDance", "equipHat",
     "launchRocket", "explosion", "playerRagdoll", "playerHit"}

\* C13: a chat, equipTool, unequipTool, dance, stopDance, equipHat, launchRocket,
\* explosion, playerRagdoll or playerHit message of a connection that has no
\* PlayerState changes no server state and causes no outbound event.
C13_NoPlayerStateNoOp ==
    [][\A s \in DOMAIN sockets :
          (last'.ev \in RelayedMessages /\ last'.id = s /\ s \notin DOMAIN players)
          => /\ sent' = EmptyBag
             /\ ServerState' = ServerState]_vars

\* C15: the playerMove handler terminates for every payload, a non-finite or
\* arbitrarily large rotation included.
C15_PlayerMoveTerminates == proc # "hung"
\* C16: a successful register creates the connection's PlayerState at (0, 3, 0),
\* rotation 0, not moving, with the default colours, no hat and no tool, the
\* requested nickname and the connection's room, and records the nickname in the
\* registry under the connection's id.
C16_RegisterCreatesSpawnState ==
    [][\A s \in DOMAIN sockets :
          (last'.ev = "register" /\ last'.id = s /\ s \in DOMAIN sockets')
          => /\ s \in DOMAIN players'
             /\ players'[s] = [id |-> s, nickname |-> last'.payload, room |-> RoomOf(s),
                               x |-> 0, y |-> 3, z |-> 0, rotation |-> 0, isMoving |-> FALSE,
                               colors |-> DefaultColors, hatId |-> Null]
             /\ "tool" \notin DOMAIN players'[s]
             /\ s \in DOMAIN activeNicknames'
             /\ activeNicknames'[s] = last'.payload]_vars

\* C16 witness: a connection of room lobby that had already sent moves registered
\* as the admin and stands at the spawn pose
C16_Witness ==
    /\ last.ev = "register"
    /\ Admitted(last.id)
    /\ last.payload = ADMIN
    /\ sockets[last.id].roomName = "lobby"
    /\ sockets[last.id].lastMoveAt # 0
    /\ players[last.id].y = 3
    /\ players[last.id].hatId = Null
\* C17: on a successful register the registrant receives exactly one initialPlayers
\* holding exactly the PlayerState records whose room is its room, and exactly the
\* other connections of that room each receive one playerJoined with the new record.
C17_RegisterAnnounces ==
    [][\A s \in DOMAIN sockets :
          (last'.ev = "register" /\ last'.id = s /\ s \in DOMAIN sockets')
          => /\ \A m \in BagToSet(sent') :
                   m.ev = "initialPlayers"
                   => /\ m.to = s
                      /\ CopiesIn(m, sent') = 1
                      /\ m.payload = [i \in {j \in DOMAIN players' : players'[j].room = RoomOf(s)}
                                         |-> players'[i]]
             /\ \E m \in BagToSet(sent') : m.ev = "initialPlayers"
             /\ \A t \in DOMAIN sockets :
                   CopiesNext("playerJoined", players'[s], t)
                       = IF t # s /\ RoomOf(t) = RoomOf(s) THEN 1 ELSE 0]_vars
\* C18: a register is rejected only when its nickname is held in the registry: a
\* register whose nickname no connection holds is admitted, and a connection that
\* disconnects no longer holds its nickname, so the next register with it is admitted.
C18_RejectedOnlyWhenHeld ==
    [][/\ \A s \in DOMAIN sockets :
             (/\ last'.ev = "register" /\ last'.id = s
              /\ last'.payload \notin Range(activeNicknames))
             => /\ s \in DOMAIN sockets'
                /\ s \in DOMAIN players'
                /\ s \in DOMAIN activeNicknames'
                /\ activeNicknames'[s] = last'.payload
                /\ \A m \in BagToSet(sent') : m.ev # "nicknameError"
       /\ \A s \in DOMAIN activeNicknames :
             s \notin DOMAIN sockets' => activeNicknames[s] \notin Range(activeNicknames')]_vars

\* C18 witness: after the first connection has gone, the second one registered as
\* daniel244 and was admitted
C18_Witness ==
    /\ "s1" \in closed
    /\ last.ev = "register"
    /\ last.id = "s2"
    /\ last.payload = DANIEL
    /\ "s2" \in DOMAIN sockets
    /\ Admitted("s2")
    /\ activeNicknames["s2"] = DANIEL
    /\ Copies("nicknameError", NicknameInUse, "s2") = 0
\* C19: every key of the registry and of the Player State Store is the id of a
\* connected connection: once a connection has disconnected (admitted, rejected or
\* never registered) no entry for its id remains, and its disconnect removes
\* nothing of another connection.
C19_KeysAreConnected ==
    [][/\ DOMAIN players' \subseteq DOMAIN sockets'
       /\ DOMAIN activeNicknames' \subseteq DOMAIN sockets'
       /\ (DOMAIN players' \cup DOMAIN activeNicknames') \cap closed' = {}
       /\ \A s \in DOMAIN sockets :
             s \notin DOMAIN sockets'
             => \A t \in DOMAIN sockets \ {s} :
                   /\ t \in DOMAIN sockets'
                   /\ t \in DOMAIN players => (t \in DOMAIN players' /\ players'[t] = players[t])
                   /\ t \in DOMAIN activeNicknames
                      => (t \in DOMAIN activeNicknames' /\ activeNicknames'[t] = activeNicknames[t])]_vars

\* C19 witness: the first connection has disconnected and the second one, which had
\* moved, is still admitted under its name
C19_Witness ==
    /\ last.ev = "disconnect"
    /\ last.id = "s1"
    /\ "s1" \in closed
    /\ DOMAIN players = {"s2"}
    /\ DOMAIN activeNicknames = {"s2"}
    /\ players["s2"].x = WORLD_XZ
    /\ activeNicknames["s2"] = DANIEL
\* C20: a playerMove of an admitted connection is dropped only if a playerMove of
\* that connection was applied to its PlayerState less than 1000 / MAX_MOVE_RATE ms
\* earlier: when the observer has seen no move of the connection applied for at
\* least that long, the move is applied.
C20_DroppedOnlyAfterAppliedMove ==
    [][\A s \in DOMAIN players :
          (/\ now' = now   \* a handler ran, the clock did not move
           /\ last'.ev = "playerMove" /\ last'.id = s /\ last'.payload = FarMove
           /\ win.id = s /\ win.count = 0
           /\ (now - win.start) * MAX_MOVE_RATE >= 1000
           /\ now <= win.start + 1000)
          => /\ win'.count = 1
             /\ players'[s].x = WORLD_XZ
             /\ players'[s].y = WORLD_YMIN
             /\ players'[s].isMoving]_vars
\* C21: a playerMove dropped by the rate limiter (the sender's previous timestamp is
\* less than 1000 / MAX_MOVE_RATE ms old) leaves every PlayerState, the registry
\* and the sender's last-move timestamp unchanged, and sends no message.
C21_DroppedMoveChangesNothing ==
    [][\A s \in DOMAIN sockets :
          (/\ now' = now   \* a handler ran, the clock did not move
           /\ last'.ev = "playerMove" /\ last'.id = s
           /\ sockets[s].lastMoveAt # 0
           /\ (now - sockets[s].lastMoveAt) * MAX_MOVE_RATE < 1000)
          => /\ players' = players
             /\ activeNicknames' = activeNicknames
             /\ sockets' = sockets
             /\ sent' = EmptyBag
             /\ proc' = proc]_vars

\* C21 witness: a move of an admitted connection came 33 ms after its last one and
\* was dropped, while another player is in the room
C21_Witness ==
    /\ last.ev = "playerMove"
    /\ last.payload = NoData
    /\ Admitted(last.id)
    /\ now - sockets[last.id].lastMoveAt = 33
    /\ players[last.id].x = WORLD_XZ
    /\ \E t \in DOMAIN players : t # last.id
    /\ sent = EmptyBag
\* The fields of a PlayerState a playerMove writes
MoveFields == {"x", "y", "z", "rotation", "isMoving", "isInAir"}

\* C22: an accepted playerMove changes only the x, y, z, rotation, isMoving and
\* isInAir fields of the sender's PlayerState: its nickname, room, id, colors and
\* hatId have the same value after as before, and every other PlayerState and the
\* registry are unchanged.
C22_MoveWritesMoveFieldsOnly ==
    [][\A s \in DOMAIN players :
          (/\ now' = now   \* a handler ran, the clock did not move
           /\ last'.ev = "playerMove" /\ last'.id = s
           /\ ~(sockets[s].lastMoveAt # 0 /\ (now - sockets[s].lastMoveAt) * MAX_MOVE_RATE < 1000))
          => /\ DOMAIN players' = DOMAIN players
             /\ DOMAIN players'[s] \ MoveFields = DOMAIN players[s] \ MoveFields
             /\ \A f \in {"nickname", "room", "id", "colors", "hatId"} : players'[s][f] = players[s][f]
             /\ \A t \in DOMAIN players \ {s} : players'[t] = players[t]
             /\ activeNicknames' = activeNicknames]_vars

\* C22 witness: an accepted move put a player with custom colours at the world's
\* edge, beside another player who stands elsewhere
C22_Witness ==
    /\ last.ev = "playerMove"
    /\ last.payload = FarMove
    /\ Admitted(last.id)
    /\ sockets[last.id].lastMoveAt = now
    /\ now > T0
    /\ players[last.id].x = WORLD_XZ
    /\ players[last.id].colors = CustomColors
    /\ \E t \in DOMAIN players : t # last.id /\ players[t].x = 0 /\ players[t].colors = DefaultColors
\* C23: handling a playerMove sends no message to any connection, whether the move
\* is applied, dropped or comes from a connection without a PlayerState.
C23_MoveSendsNothing ==
    [][(now' = now /\ last'.ev = "playerMove") => sent' = EmptyBag]_vars

\* C23 witness: a move without payload was applied for a player whose room holds
\* another player, and nothing was sent
C23_Witness ==
    /\ last.ev = "playerMove"
    /\ last.payload = NoData
    /\ Admitted(last.id)
    /\ sockets[last.id].lastMoveAt = now
    /\ players[last.id].y = WORLD_YMIN
    /\ \E t \in DOMAIN players : t # last.id /\ players[t].room = players[last.id].room
    /\ sent = EmptyBag
\* C24: the gameState snapshot of a tick shows for each player exactly what the
\* store holds, which is the sanitized values of the last playerMove applied for
\* that player (or the spawn pose): an applied playerMove{x: 999, y: -5, z: 0,
\* rotation: 10, isMoving: true} is stored as x = 250, y = 0, z = 0, moving, with
\* the rotation brought into (-PI, PI] by whole turns.
C24_SnapshotShowsLastMove ==
    [][/\ \A s \in DOMAIN players :
             (/\ now' = now   \* a handler ran, the clock did not move
              /\ last'.ev = "playerMove" /\ last'.id = s /\ last'.payload = FarMove
              /\ ~(sockets[s].lastMoveAt # 0 /\ (now - sockets[s].lastMoveAt) * MAX_MOVE_RATE < 1000))
             => /\ players'[s].x = 250 /\ players'[s].y = 0 /\ players'[s].z = 0
                /\ players'[s].isMoving = TRUE /\ players'[s].isInAir = FALSE
                /\ -PI < players'[s].rotation /\ players'[s].rotation <= PI
                /\ (10000 - players'[s].rotation) % (2 * PI) = 0
       /\ (now' = now /\ last'.ev = "tick")
          => /\ players' = players
             /\ \A m \in BagToSet(sent') :
                   /\ m.ev = "gameState"
                   /\ \A id \in DOMAIN m.payload : id \in DOMAIN players /\ m.payload[id] = players[id]
                   \* m.from is the room the snapshot was made for
                   /\ \A id \in DOMAIN players : players[id].room = m.from => id \in DOMAIN m.payload]_vars

\* C24 witness: the tick after register and playerMove{x: 999, y: -5, z: 0,
\* rotation: 10, isMoving: true} delivers a snapshot that shows the player at
\* x = 250, y = 0, moving, with rotation 10 - 4 * PI
C24_Witness ==
    /\ last.ev = "tick"
    /\ \E m \in BagToSet(sent) :
          /\ m.ev = "gameState"
          /\ m.to = "s1"
          /\ "s1" \in DOMAIN m.payload
          /\ m.payload["s1"].x = 250
          /\ m.payload["s1"].y = 0
          /\ m.payload["s1"].isMoving
          /\ m.payload["s1"].rotation = 10000 - 4 * PI
          /\ m.payload["s1"].colors = CustomColors
\* The values of a playerMove field that are missing or not a number
NonNumeric == {JsUndef, JsNull, JsStr, JsTrue, JsFalse}

\* C25: in an accepted playerMove each of x, y, z and rotation that is missing or
\* non-numeric (the payload may be absent altogether) is stored as 0, isMoving and
\* isInAir are stored as booleans, false when missing, and no error is raised.
C25_NonNumericStoredAsZero ==
    [][\A s \in DOMAIN players :
          (/\ now' = now   \* a handler ran, the clock did not move
           /\ last'.ev = "playerMove" /\ last'.id = s
           /\ ~(sockets[s].lastMoveAt # 0 /\ (now - sockets[s].lastMoveAt) * MAX_MOVE_RATE < 1000))
          => /\ \A f \in {"x", "y", "z", "rotation"} :
                   last'.payload[f] \in NonNumeric => players'[s][f] = 0
             /\ \A f \in {"isMoving", "isInAir"} :
                   /\ f \in DOMAIN players'[s]
                   /\ players'[s][f] \in BOOLEAN
                   /\ last'.payload[f] = JsUndef => players'[s][f] = FALSE
             /\ proc' # "crashed"]_vars
\* C26: no message of a connection A changes the PlayerState or the registry entry
\* of another connection B, and the admin commands change no PlayerState at all.
C26_NoCrossPlayerWrite ==
    [][/\ \A a \in DOMAIN sockets, b \in DOMAIN sockets :
             (a # b /\ last'.id = a /\ now' = now /\ win' = win)
             => /\ (b \in DOMAIN players) = (b \in DOMAIN players')
                /\ b \in DOMAIN players => players'[b] = players[b]
                /\ (b \in DOMAIN activeNicknames) = (b \in DOMAIN activeNicknames')
                /\ b \in DOMAIN activeNicknames => activeNicknames'[b] = activeNicknames[b]
       /\ (last'.ev \in {"danielCommand", "adminExplode"} /\ now' = now /\ win' = win)
          => players' = players]_vars

\* C26 witness: a player reported a hit on the admin, who stands at the world's
\* edge as before
C26_Witness ==
    /\ last.ev = "playerHit"
    /\ Admitted(last.id)
    /\ last.payload.victim = ADMIN
    /\ \E b \in DOMAIN players :
          /\ b # last.id
          /\ players[b].nickname = ADMIN
          /\ players[b].room = players[last.id].room
          /\ players[b].x = WORLD_XZ
\* C27: an adminExplode{target} of a connection whose nickname is the admin name
\* delivers exactly one adminExplode{target} to every connection of the sender's
\* room, the sender included, when a PlayerState of that room has the nickname
\* target, and sends no message at all when none has, even if a player of another
\* room has that nickname.
C27_AdminExplodeReachesRoom ==
    [][\A s \in DOMAIN sockets :
          (/\ last'.ev = "adminExplode" /\ last'.id = s /\ last'.payload # Absent
           /\ sockets[s].nickname = ADMIN)
          => IF \E id \in DOMAIN players :
                    players[id].room = RoomOf(s) /\ players[id].nickname = last'.payload
             THEN \A t \in DOMAIN sockets :
                     RoomOf(t) = RoomOf(s)
                     => CopiesNext("adminExplode", [target |-> last'.payload], t) = 1
             ELSE sent' = EmptyBag]_vars

\* C27 witness: the admin exploded daniel244, who is in the admin's room, and both
\* received adminExplode once
C27_Witness ==
    /\ last.ev = "adminExplode"
    /\ last.payload = DANIEL
    /\ Admitted(last.id)
    /\ sockets[last.id].nickname = ADMIN
    /\ \E t \in DOMAIN players :
          /\ t # last.id
          /\ players[t].nickname = DANIEL
          /\ sockets[t].roomName = sockets[last.id].roomName
          /\ Copies("adminExplode", [target |-> DANIEL], t) = 1
    /\ Copies("adminExplode", [target |-> DANIEL], last.id) = 1
\* C28: a danielCommand produces danielEvent for the sender's room if and only if
\* the sender's nickname is the privileged name and it had no danielCommand
\* accepted in the preceding 20 s (socket.lastDaniel is the time of the last one
\* accepted: it is set when danielEvent is sent and only then); a refused
\* danielCommand sends nothing and leaves the cooldown as it was.
C28_DanielEventEvery20s ==
    [][\A s \in DOMAIN sockets :
          (now' = now /\ last'.ev = "danielCommand" /\ last'.id = s)
          => IF /\ sockets[s].nickname = DANIEL
                /\ (sockets[s].lastDaniel = 0 \/ now - sockets[s].lastDaniel >= 20000)
             THEN /\ \A t \in DOMAIN sockets :
                        RoomOf(t) = RoomOf(s) => CopiesNext("danielEvent", "", t) = 1
                  /\ sockets'[s].lastDaniel = now
             ELSE /\ sent' = EmptyBag
                  /\ sockets' = sockets]_vars

\* C28 witness: daniel244 asked again 19.998 s after its accepted command, nothing
\* was sent and the cooldown still runs from the accepted one
C28_Witness ==
    /\ last.ev = "danielCommand"
    /\ sockets[last.id].nickname = DANIEL
    /\ sockets[last.id].lastDaniel # 0
    /\ now - sockets[last.id].lastDaniel = 19998
    /\ sent = EmptyBag
\* The event each relayed message is sent on as
OutEvent ==
    [chat |-> "chat", equipTool |-> "remoteEquip", unequipTool |-> "remoteUnequip",
     dance |-> "dance", stopDance |-> "stopDance", equipHat |-> "playerHatChanged",
     launchRocket |-> "spawnRocket", explosion |-> "explosion",
     playerRagdoll |-> "playerRagdoll", playerHit |-> "playerDied"]

\* How many messages of event ev the step delivers to socket t
DeliveredNext(ev, t) ==
    LET ms == {m \in BagToSet(sent') : m.ev = ev /\ m.to = t}
    IN  IF ms = {} THEN 0
        ELSE IF Cardinality(ms) = 1 THEN CopiesIn(CHOOSE m \in ms : TRUE, sent')
        ELSE Cardinality(ms)

\* C29: for a message of an admitted connection, remoteEquip, remoteUnequip, dance
\* and stopDance are delivered once to every other connection of the sender's room
\* and never to the sender; chat, playerHatChanged, spawnRocket, explosion,
\* playerRagdoll and playerDied are delivered once to every connection of the
\* sender's room, the sender included.
C29_RelayRecipients ==
    [][\A s \in DOMAIN players :
          (last'.ev \in DOMAIN OutEvent /\ last'.id = s)
          => \A t \in DOMAIN sockets :
                RoomOf(t) = RoomOf(s)
                => DeliveredNext(OutEvent[last'.ev], t)
                      = IF t = s /\ last'.ev \in {"equipTool", "unequipTool", "dance", "stopDance"}
                        THEN 0 ELSE 1]_vars

\* C29 witness: an admitted connection danced, the other connection of its room
\* received dance once and the dancer did not
C29_Witness ==
    /\ last.ev = "dance"
    /\ Admitted(last.id)
    /\ Copies("dance", last.id, last.id) = 0
    /\ \E t \in DOMAIN sockets :
          /\ t # last.id
          /\ sockets[t].roomName = sockets[last.id].roomName
          /\ Copies("dance", last.id, t) = 1
\* C30: playerCustomize(colors) of a connection that has a PlayerState replaces its
\* colour set by exactly the value sent and changes no other field and no other
\* player; of a connection without a PlayerState it changes nothing; either way it
\* sends no message.
C30_CustomizeWritesColorsOnly ==
    [][\A s \in DOMAIN sockets :
          (now' = now /\ last'.ev = "playerCustomize" /\ last'.id = s)
          => /\ sent' = EmptyBag
             /\ sockets' = sockets
             /\ activeNicknames' = activeNicknames
             /\ DOMAIN players' = DOMAIN players
             /\ \A t \in DOMAIN players :
                   players'[t] = IF t = s THEN [players[s] EXCEPT !.colors = last'.payload]
                                 ELSE players[t]]_vars

\* C30 witness: a player at the world's edge took custom colours, beside a player
\* who keeps the default ones
C30_Witness ==
    /\ last.ev = "playerCustomize"
    /\ last.payload = CustomColors
    /\ Admitted(last.id)
    /\ players[last.id].colors = CustomColors
    /\ players[last.id].x = WORLD_XZ
    /\ \E t \in DOMAIN players : t # last.id /\ players[t].colors = DefaultColors
    /\ sent = EmptyBag
\* C31: once a connection is admitted with a nickname, its entry of activeNicknames
\* and the nickname of its PlayerState keep that value for as long as it stays
\* connected, whatever messages it or any other connection sends.
C31_NicknameKeptUntilDisconnect ==
    [][\A s \in DOMAIN sockets :
          (Admitted(s) /\ activeNicknames[s] # Undefined /\ s \in DOMAIN sockets')
          => /\ s \in DOMAIN activeNicknames' /\ activeNicknames'[s] = activeNicknames[s]
             /\ s \in DOMAIN players' /\ players'[s].nickname = players[s].nickname]_vars

\* C32: a register turned away for a nickname in use leaves the registry entry and
\* the PlayerState of the connection that holds the nickname as they were, the
\* disconnect listener of the connection turned away having run.
C32_RejectedRegisterSparesHolder ==
    [][\A h \in DOMAIN activeNicknames :
          (/\ last'.ev = "register"
           /\ now' = now
           /\ \E m \in BagToSet(sent') : m.ev = "nicknameError"
           /\ activeNicknames[h] = last'.payload)
          => /\ h \in DOMAIN activeNicknames' /\ activeNicknames'[h] = activeNicknames[h]
             /\ (h \in DOMAIN players => h \in DOMAIN players' /\ players'[h] = players[h])]_vars
\* C33: in server.js each equipTool (unequipTool) of a connected client delivers
\* exactly one remoteEquip (remoteUnequip) to every other connected client and none
\* to the sender, however many connections were opened before the sender's.
C33_GlobalEquipRelayedOnce ==
    [][\A s \in DOMAIN sockets :
          (last'.ev \in {"equipTool", "unequipTool"} /\ last'.id = s)
          => \A t \in DOMAIN sockets :
                DeliveredNext(OutEvent[last'.ev], t) = IF t = s THEN 0 ELSE 1]_vars

\* C34: in server.js no message of one connection changes the player record of
\* another connection.
C34_GlobalNoCrossPlayerWrite ==
    [][\A a \in DOMAIN sockets, b \in DOMAIN players :
          (a # b /\ last'.id = a /\ last'.ev \notin {"connection", "disconnect", "tick"})
          => b \in DOMAIN players' /\ players'[b] = players[b]]_vars

\* C35: in server.js a playerAnim whose anim is a string, arriving 150 ms or more
\* after the sender's last relayed one, is relayed once to every other connected
\* client with the sender's id and its handlers end without an error; one arriving
\* sooner is not relayed.
C35_PlayerAnimRelayed ==
    [][\A s \in DOMAIN sockets :
          (last'.ev = "playerAnim" /\ last'.id = s)
          => IF last'.payload.anim.k = "str" /\ now - sockets[s].lastAnimAt >= 150
             THEN /\ proc' = "running"
                  /\ \A t \in DOMAIN sockets : DeliveredNext("playerAnim", t) = IF t = s THEN 0 ELSE 1
             ELSE sent' = EmptyBag]_vars
\* C36: a POST /api/maps/:name whose name sanitizes to a non-empty identifier and
\* whose body is a JSON object stores the map, its name field set to the sanitized
\* identifier; a GET of a stored name answers the stored map, a GET of a name never
\* stored answers 404.
C36_PostThenGet ==
    [][/\ (last'.ev = "POST /api/maps/:name" /\ \E i \in DOMAIN last'.payload.name :
                                                   last'.payload.name[i] \in SafeChars)
          => /\ res'.status = 200
             /\ \E n \in DOMAIN maps' :
                   /\ n \in fsCalls'
                   /\ maps'[n].name = n
                   /\ maps'[n].blocks = last'.payload.body.blocks
       /\ (last'.ev = "GET /api/maps/:name" /\ res'.status # 400)
          => \/ res'.status = 404 /\ fsCalls' \cap DOMAIN maps = {}
             \/ res'.status = 200 /\ \E n \in fsCalls' \cap DOMAIN maps : res'.body = maps[n]]_vars

\* C37: every file the map endpoints read or write is named by an identifier of 1
\* to 64 characters of [A-Za-z0-9_-]; a request whose name has no such character
\* is answered 400 and no file is read or written.
C37_OnlySafeFileNames ==
    [][last'.ev \in {"GET /api/maps", "GET /api/maps/:name", "POST /api/maps/:name"}
       => /\ \A f \in fsCalls' :
                /\ Len(f) \in 1..64
                /\ \A i \in 1..Len(f) : f[i] \in SafeChars
          /\ \A f \in (DOMAIN maps \cup DOMAIN maps') \ fsCalls' :
                f \in DOMAIN maps /\ f \in DOMAIN maps' /\ maps'[f] = maps[f]
          /\ LET name == IF last'.ev = "POST /api/maps/:name" THEN last'.payload.name
                         ELSE last'.payload
             IN  (last'.ev # "GET /api/maps" /\ \A i \in 1..Len(name) : name[i] \notin SafeChars)
                 => res'.status = 400 /\ fsCalls' = {} /\ maps' = maps]_vars

\* C37 witness: a GET of a name of 65 letters read the file named by its first 64
C37_Witness ==
    /\ last.ev = "GET /api/maps/:name"
    /\ Len(last.payload) = LongLen
    /\ res.status = 200
    /\ \E f \in fsCalls : Len(f) = 64 /\ f \in DOMAIN maps /\ res.body = maps[f]
\* C38: on the client, however initialPlayers, playerJoined, gameState and
\* playerLeft interleave with the completions of the head-model loads, the scene
\* holds at most one avatar for each remote player id and every avatar of the scene
\* is the one otherPlayers tracks for its id.
C38_OneTrackedAvatarPerPlayer ==
    /\ \A a, b \in scene : a.id = b.id => a = b
    /\ \A a \in scene : a.id \in DOMAIN otherPlayers /\ otherPlayers[a.id] = a

\* C39: the equipTool and unequipTool messages the client emits alternate strictly,
\* starting with equipTool.
C39_EquipUnequipAlternate ==
    \A i \in 1..Len(emitted) : emitted[i] = IF i % 2 = 1 THEN "equipTool" ELSE "unequipTool"
\* C40: savePlayer(id, nickname, data) creates or replaces the row of id only: the
\* rows of all other ids are the same before and after the call, for every
\* nickname, one stored under another id included.
C40_SavePlayerWritesOneRow ==
    [][last'.ev = "savePlayer"
       => /\ last'.id \in DOMAIN rows' /\ rows'[last'.id] = last'.payload
          /\ \A j \in (DOMAIN rows \cup DOMAIN rows') \ {last'.id} :
                j \in DOMAIN rows /\ j \in DOMAIN rows' /\ rows'[j] = rows[j]]_vars
====
